---- MODULE Spec2Model ----
(***************************************************************************)
(* Model of the BFHL computation service (src/server.js): GET /health,     *)
(* POST /bfhl with its five operations, the 404 fallback and the global    *)
(* error handler.                                                          *)
(*                                                                         *)
(* JavaScript numbers are IEEE-754 doubles.  The arithmetic of the lcm and *)
(* fibonacci branches leaves the range in which doubles are exact, so      *)
(* doubles are modelled explicitly: a non-negative integer-valued double   *)
(* is a 53-bit mantissa m (a multi-limb natural number) times 2^e, and     *)
(* every addition, multiplication and division rounds to nearest, ties to  *)
(* even, as the hardware does.                                             *)
(***************************************************************************)
EXTENDS Integers, Sequences, FiniteSets, TLC

(***************************************************************************)
(* Multi-limb natural numbers: little-endian sequences of limbs in         *)
(* 0..LimbBase-1 without high zero limbs; <<>> is zero.                    *)
(***************************************************************************)
LimbBase == 2^10

\* the width of a double's mantissa: Number.isSafeInteger is |x| < 2^53
MantissaBits == 53

RECURSIVE Pow2(_)
Pow2(k) == IF k = 0 THEN 1 ELSE 2 * Pow2(k - 1)

Abs(x) == IF x < 0 THEN -x ELSE x

Min(x, y) == IF x <= y THEN x ELSE y

RECURSIVE BigFromInt(_)
BigFromInt(n) ==
  IF n = 0 THEN <<>> ELSE <<n % LimbBase>> \o BigFromInt(n \div LimbBase)

RECURSIVE BigAddC(_, _, _)
BigAddC(x, y, c) ==
  IF x = <<>> /\ y = <<>> THEN BigFromInt(c)
  ELSE LET hx == IF x = <<>> THEN 0 ELSE Head(x)
           hy == IF y = <<>> THEN 0 ELSE Head(y)
           tx == IF x = <<>> THEN <<>> ELSE Tail(x)
           ty == IF y = <<>> THEN <<>> ELSE Tail(y)
           t  == hx + hy + c
       IN  <<t % LimbBase>> \o BigAddC(tx, ty, t \div LimbBase)

BigAdd(x, y) == BigAddC(x, y, 0)

\* x * m for a machine-size m (m < 2^21 keeps every limb product in range)
RECURSIVE BigMulC(_, _, _)
BigMulC(x, m, c) ==
  IF x = <<>> THEN BigFromInt(c)
  ELSE LET t == Head(x) * m + c
       IN  <<t % LimbBase>> \o BigMulC(Tail(x), m, t \div LimbBase)

BigMulSmall(x, m) == IF m = 0 THEN <<>> ELSE BigMulC(x, m, 0)

\* quotient and remainder of x by a machine-size d (0 < d < 2^21)
RECURSIVE BigDivMod(_, _)
BigDivMod(x, d) ==
  IF x = <<>> THEN [q |-> <<>>, r |-> 0]
  ELSE LET hi == BigDivMod(Tail(x), d)
           t  == hi.r * LimbBase + Head(x)
           ql == t \div d
       IN  [q |-> IF hi.q = <<>> /\ ql = 0 THEN <<>> ELSE <<ql>> \o hi.q,
            r |-> t % d]

RECURSIVE SmallBitLen(_)
SmallBitLen(n) == IF n = 0 THEN 0 ELSE 1 + SmallBitLen(n \div 2)

LimbBits == SmallBitLen(LimbBase - 1)

BitLen(x) ==
  IF x = <<>> THEN 0 ELSE (Len(x) - 1) * LimbBits + SmallBitLen(x[Len(x)])

\* bit i (0 = least significant) of x
Bit(x, i) ==
  LET j == (i \div LimbBits) + 1
  IN  IF j > Len(x) THEN 0 ELSE (x[j] \div Pow2(i % LimbBits)) % 2

\* x mod 2^k = 0
LowBitsZero(x, k) ==
  /\ \A j \in 1..Min(k \div LimbBits, Len(x)) : x[j] = 0
  /\ \/ k % LimbBits = 0
     \/ (k \div LimbBits) + 1 > Len(x)
     \/ x[(k \div LimbBits) + 1] % Pow2(k % LimbBits) = 0

\* floor(x / 2^s)
ShiftR(x, s) ==
  LET drop == s \div LimbBits
      rest == IF drop >= Len(x) THEN <<>> ELSE SubSeq(x, drop + 1, Len(x))
  IN  BigDivMod(rest, Pow2(s % LimbBits)).q

\* x * 2^s
ShiftL(x, s) ==
  IF x = <<>> THEN <<>>
  ELSE [j \in 1..(s \div LimbBits) |-> 0] \o BigMulSmall(x, Pow2(s % LimbBits))

RECURSIVE BigLessFrom(_, _, _)
BigLessFrom(x, y, j) ==
  IF j = 0 THEN FALSE
  ELSE IF x[j] # y[j] THEN x[j] < y[j]
  ELSE BigLessFrom(x, y, j - 1)

BigLess(x, y) ==
  IF Len(x) # Len(y) THEN Len(x) < Len(y) ELSE BigLessFrom(x, y, Len(x))

(***************************************************************************)
(* IEEE-754 doubles holding integers: [neg, m, e] is (+/-) m * 2^e with    *)
(* m < 2^53, and e > 0 only when m >= 2^52.  The operations below work on  *)
(* magnitudes, which is all the code's Math.abs leaves of their operands.  *)
(***************************************************************************)
\* round-to-nearest, ties-to-even, of the natural number n
RoundToDouble(n) ==
  LET l == BitLen(n)
  IN  IF l <= MantissaBits THEN [neg |-> FALSE, m |-> n, e |-> 0]
      ELSE LET s      == l - MantissaBits
               q      == ShiftR(n, s)
               guard  == Bit(n, s - 1) = 1
               sticky == ~LowBitsZero(n, s - 1)
               up     == guard /\ (sticky \/ Bit(q, 0) = 1)
               q2     == IF up THEN BigAdd(q, <<1>>) ELSE q
           IN  IF BitLen(q2) > MantissaBits
               THEN [neg |-> FALSE, m |-> ShiftR(q2, 1), e |-> s + 1]
               ELSE [neg |-> FALSE, m |-> q2, e |-> s]

\* the exact integer a double stands for
BigOf(d) == ShiftL(d.m, d.e)

\* the double sum x + y
DoubleAdd(x, y) ==
  LET e0 == Min(x.e, y.e)
      r  == RoundToDouble(BigAdd(ShiftL(x.m, x.e - e0), ShiftL(y.m, y.e - e0)))
  IN  [neg |-> FALSE, m |-> r.m, e |-> r.e + e0]

\* the double product |x * b| of a double x and a machine-size integer b
DoubleMulSmall(x, b) ==
  LET r == RoundToDouble(BigMulSmall(x.m, Abs(b)))
  IN  IF r.m = <<>> THEN r ELSE [neg |-> FALSE, m |-> r.m, e |-> r.e + x.e]

\* the double quotient p / g of a double p and a machine-size integer g > 0.
\* integral says whether the rounded quotient is a whole number; val is that
\* whole number (the floor of the quotient when the result is not whole).
DoubleDivSmall(p, g) ==
  LET dm == BigDivMod(BigOf(p), g)
      l  == BitLen(dm.q)
      k  == MantissaBits - l
      h  == g \div Pow2(Min(k + 1, 21))
  IN  IF dm.r = 0 THEN [integral |-> TRUE, val |-> RoundToDouble(dm.q)]
      ELSE IF l > MantissaBits
        THEN LET r2 == RoundToDouble(BigAdd(ShiftL(dm.q, 1), <<1>>))
             IN  [integral |-> TRUE,
                  val |-> [neg |-> FALSE, m |-> r2.m, e |-> r2.e - 1]]
      ELSE IF l = MantissaBits
        THEN [integral |-> TRUE,
              val |-> IF 2 * dm.r > g \/ (2 * dm.r = g /\ Bit(dm.q, 0) = 1)
                      THEN RoundToDouble(BigAdd(dm.q, <<1>>))
                      ELSE RoundToDouble(dm.q)]
      ELSE IF dm.r <= h THEN [integral |-> TRUE, val |-> RoundToDouble(dm.q)]
      ELSE IF g - dm.r <= h
        THEN [integral |-> TRUE, val |-> RoundToDouble(BigAdd(dm.q, <<1>>))]
      ELSE [integral |-> FALSE, val |-> RoundToDouble(dm.q)]

\* the double holding the machine-size integer n
DoubleOfInt(n) == [neg |-> n < 0, m |-> BigFromInt(Abs(n)), e |-> 0]

(***************************************************************************)
(* JavaScript values as they arrive in a parsed JSON body: the tag t and   *)
(* the payload of that tag: n for "int" (a safe integer), chars (a         *)
(* sequence of one-character strings) for "string", elems for "array",     *)
(* props (a sequence of [k, val] properties) for "object".  "unsafe" is a  *)
(* whole number beyond 2^53 - 1 (9007199254740992), "fraction" a number    *)
(* such as 3.5, "infinity" what 1e400 parses to.                           *)
(***************************************************************************)
JsValue(t, n, chars, elems, props) ==
  [t |-> t, n |-> n, chars |-> chars, elems |-> elems, props |-> props]
JsInt(n) == JsValue("int", n, <<>>, <<>>, <<>>)
JsUnsafe == JsValue("unsafe", 0, <<>>, <<>>, <<>>)
JsFraction == JsValue("fraction", 0, <<>>, <<>>, <<>>)
JsInfinity == JsValue("infinity", 0, <<>>, <<>>, <<>>)
JsUndefined == JsValue("undefined", 0, <<>>, <<>>, <<>>)
JsNull == JsValue("null", 0, <<>>, <<>>, <<>>)
JsStr(s) == JsValue("string", 0, s, <<>>, <<>>)
JsArr(a) == JsValue("array", 0, <<>>, a, <<>>)
JsObj(props) == JsValue("object", 0, <<>>, <<>>, props)
Prop(key, val) == [k |-> key, val |-> val]

NumberTags == {"int", "unsafe", "fraction", "infinity"}

typeof(x) ==
  CASE x.t \in NumberTags -> "number"
    [] x.t = "string" -> "string"
    [] x.t = "undefined" -> "undefined"
    [] OTHER -> "object"

\* !x
Falsy(x) ==
  \/ x.t \in {"undefined", "null"}
  \/ x.t = "int" /\ x.n = 0
  \/ x.t = "string" /\ x.chars = <<>>

Array_isArray(x) == x.t = "array"

Number_isInteger(x) == x.t \in {"int", "unsafe"}

Number_isSafeInteger(x) == x.t = "int"

\* isFinite on a number (the && of isSafeInteger only lets numbers reach it)
isFinite(x) == x.t \in {"int", "unsafe", "fraction"}

Object_keys(x) ==
  CASE x.t = "object" -> [i \in 1..Len(x.props) |-> x.props[i].k]
    [] x.t = "array" -> [i \in 1..Len(x.elems) |-> ToString(i - 1)]
    [] OTHER -> <<>>

\* x[key] for a key that Object_keys(x) holds
Get(x, key) ==
  IF x.t = "object"
  THEN x.props[CHOOSE i \in 1..Len(x.props) : x.props[i].k = key].val
  ELSE x.elems[CHOOSE i \in 1..Len(x.elems) : ToString(i - 1) = key]

(***************************************************************************)
(* Constraints and utility functions of server.js                          *)
(***************************************************************************)
MAX_FIBONACCI_INPUT == 1000
MAX_ARRAY_LENGTH == 1000
MAX_ARRAY_VALUE == 1000000
MAX_AI_QUESTION_LENGTH == 1000

(***************************************************************************)
(* Loops are recursive operators over the index range lo..hi that run the  *)
(* iterations in the code's order; a range of more than one iteration is   *)
(* run as its lower half followed by its upper half, which keeps the       *)
(* evaluation depth logarithmic in the number of iterations.               *)
(***************************************************************************)

\* a power of two that is at least the square root of n: the loop variable
\* of isPrime does its last test below it
TrialBound(n) == Pow2((SmallBitLen(n) + 1) \div 2)

\* for (i = lo; i * i <= n; i += 2) if (n % i === 0) return false, over the
\* odd i of lo..hi; TRUE when the loop found no divisor
\* faulty variant: the trial division stops at i * i < n, missing the squares
RECURSIVE isPrimeLoop_strict(_, _, _)
isPrimeLoop_strict(n, lo, hi) ==
  IF lo > hi \/ ~(lo * lo < n) THEN TRUE
  ELSE IF hi - lo < 2 THEN n % lo # 0
  ELSE LET mid == lo + 2 * ((hi - lo) \div 4)
       IN  isPrimeLoop_strict(n, lo, mid) /\ isPrimeLoop_strict(n, mid + 2, hi)

RECURSIVE isPrimeLoop(_, _, _)
isPrimeLoop(n, lo, hi) ==
  IF lo > hi \/ ~(lo * lo <= n) THEN TRUE
  ELSE IF hi - lo < 2 THEN n % lo # 0
  ELSE LET mid == lo + 2 * ((hi - lo) \div 4)
       IN  isPrimeLoop(n, lo, mid) /\ isPrimeLoop(n, mid + 2, hi)

\* isPrime on an array element (elements reach it validated, so whole
\* numbers are "int")
isPrime(x) ==
  IF ~Number_isInteger(x) \/ x.n < 2 THEN FALSE
  ELSE IF x.n = 2 THEN TRUE
  ELSE IF x.n % 2 = 0 THEN FALSE
  ELSE isPrimeLoop(x.n, 3, TrialBound(x.n))

RECURSIVE gcd(_, _)
gcd(a, b) ==
  LET a1 == Abs(a)
      b1 == Abs(b)
  IN  IF b1 = 0 THEN a1 ELSE gcd(b1, a1 % b1)

\* gcd(a, b) for a double a and a machine-size b # 0: its first step
\* gcd(b, a % b) brings both operands to machine size
gcdOfDouble(a, b) == gcd(Abs(b), BigDivMod(a.m, Abs(b)).r)

\* lcm(a, b) for the accumulator a (a double) and the element b
lcm(a, b) ==
  IF a.m = <<>> \/ b = 0
  THEN [integral |-> TRUE, val |-> DoubleOfInt(0)]
  ELSE DoubleDivSmall(DoubleMulSmall(a, b), gcdOfDouble(a, b))

isSafeInteger(value) ==
  Number_isInteger(value) /\ Number_isSafeInteger(value) /\ isFinite(value)

\* Number.isSafeInteger on the quotient lcm returns
QuotientIsSafeInteger(r) == r.integral /\ r.val.e = 0

\* an error message: its literal text and the numbers its template
\* interpolates
Err(text, arg) == [text |-> text, arg |-> arg]
NoArg == <<>>

\* the element loop of validateIntegerArray over arr[lo..hi] (1-based here,
\* the reported index is the code's 0-based one)
\* faulty variant: the magnitude check forgets Math.abs
RECURSIVE validateElements_signed(_, _, _)
validateElements_signed(arr, lo, hi) ==
  IF lo > hi THEN [valid |-> TRUE, error |-> Err("", NoArg)]
  ELSE IF lo = hi
    THEN IF ~isSafeInteger(arr[lo])
           THEN [valid |-> FALSE,
                 error |-> Err("Invalid integer at index", <<lo - 1>>)]
         ELSE IF arr[lo].n > MAX_ARRAY_VALUE
           THEN [valid |-> FALSE,
                 error |-> Err("Value at index exceeds maximum allowed value",
                               <<lo - 1>>)]
         ELSE [valid |-> TRUE, error |-> Err("", NoArg)]
  ELSE LET mid  == (lo + hi) \div 2
           left == validateElements_signed(arr, lo, mid)
       IN  IF ~left.valid THEN left
           ELSE validateElements_signed(arr, mid + 1, hi)

RECURSIVE validateElements(_, _, _)
validateElements(arr, lo, hi) ==
  IF lo > hi THEN [valid |-> TRUE, error |-> Err("", NoArg)]
  ELSE IF lo = hi
    THEN IF ~isSafeInteger(arr[lo])
           THEN [valid |-> FALSE,
                 error |-> Err("Invalid integer at index", <<lo - 1>>)]
         ELSE IF Abs(arr[lo].n) > MAX_ARRAY_VALUE
           THEN [valid |-> FALSE,
                 error |-> Err("Value at index exceeds maximum allowed value",
                               <<lo - 1>>)]
         ELSE [valid |-> TRUE, error |-> Err("", NoArg)]
  ELSE LET mid  == (lo + hi) \div 2
           left == validateElements(arr, lo, mid)
       IN  IF ~left.valid THEN left ELSE validateElements(arr, mid + 1, hi)

validateIntegerArray(x, minLength) ==
  IF ~Array_isArray(x)
    THEN [valid |-> FALSE, error |-> Err("Input must be an array", NoArg)]
  ELSE IF Len(x.elems) = 0 /\ minLength > 0
    THEN [valid |-> FALSE, error |-> Err("Array cannot be empty", NoArg)]
  ELSE IF Len(x.elems) > MAX_ARRAY_LENGTH
    THEN [valid |-> FALSE,
          error |-> Err("Array length exceeds maximum of", <<MAX_ARRAY_LENGTH>>)]
  ELSE validateElements(x.elems, 1, Len(x.elems))

(***************************************************************************)
(* String helpers of the AI branch                                         *)
(***************************************************************************)
Whitespace == {" ", "\t", "\n"}
Punctuation == {".", ",", "!", "?", ";", ":"}

SetMin(S) == CHOOSE x \in S : \A y \in S : x <= y
SetMax(S) == CHOOSE x \in S : \A y \in S : x >= y

\* s.trim()
trim(s) ==
  LET keep == {i \in 1..Len(s) : s[i] \notin Whitespace}
  IN  IF keep = {} THEN <<>> ELSE SubSeq(s, SetMin(keep), SetMax(keep))

\* s.split(/\s+/)[0]
firstToken(s) ==
  LET ws == {i \in 1..Len(s) : s[i] \in Whitespace}
  IN  IF ws = {} THEN s ELSE SubSeq(s, 1, SetMin(ws) - 1)

IsNotPunctuation(c) == c \notin Punctuation

\* faulty variant: only the punctuation that ends the token is removed
stripPunctuation_trailing(s) ==
  LET keep == {i \in 1..Len(s) : s[i] \notin Punctuation}
  IN  IF keep = {} THEN <<>> ELSE SubSeq(s, 1, SetMax(keep))

\* s.replace(/[.,!?;:]/g, '')
stripPunctuation(s) == SelectSeq(s, IsNotPunctuation)

Unknown == <<"U", "n", "k", "n", "o", "w", "n">>

\* the word the AI branch extracts from a reply text
extractWord(aiResponse) ==
  LET result == stripPunctuation(firstToken(trim(aiResponse)))
  IN  IF Len(result) = 0 THEN Unknown ELSE result

(***************************************************************************)
(* Responses: res.status(status).json(body).  JSON.stringify drops the     *)
(* properties whose value is undefined, so has lists the fields that are   *)
(* written.                                                                *)
(***************************************************************************)
Result(val) == [defined |-> TRUE, val |-> val]
UndefinedResult == [defined |-> FALSE, val |-> 0]

NoResponse ==
  [status |-> 0, has |-> {}, is_success |-> FALSE, official_email |-> JsUndefined,
   data |-> UndefinedResult, error |-> Err("", NoArg)]

\* faulty variant: the error envelope also carries the identity field
ErrorResponse_withEmail(status, text, arg) ==
  [status |-> status, has |-> {"is_success", "error", "official_email"},
   is_success |-> FALSE, official_email |-> JsUndefined,
   data |-> UndefinedResult, error |-> Err(text, arg)]

ErrorResponse(status, text, arg) ==
  [status |-> status, has |-> {"is_success", "error"}, is_success |-> FALSE,
   official_email |-> JsUndefined, data |-> UndefinedResult,
   error |-> Err(text, arg)]

SuccessResponse(email, result) ==
  [status |-> 200,
   has |-> {"is_success"}
           \cup (IF email.t = "undefined" THEN {} ELSE {"official_email"})
           \cup (IF result.defined THEN {"data"} ELSE {}),
   is_success |-> TRUE, official_email |-> email, data |-> result,
   error |-> Err("", NoArg)]

HealthResponse(email) ==
  [status |-> 200,
   has |-> {"is_success"}
           \cup (IF email.t = "undefined" THEN {} ELSE {"official_email"}),
   is_success |-> TRUE, official_email |-> email, data |-> UndefinedResult,
   error |-> Err("", NoArg)]

\* what a run of the handler ends in: a written response, or the await of
\* the outbound call
Respond(r) == [await |-> FALSE, res |-> r]
Await == [await |-> TRUE, res |-> NoResponse]

(***************************************************************************)
(* The five operations of POST /bfhl                                       *)
(***************************************************************************)
allowedKeys == <<"fibonacci", "prime", "lcm", "hcf", "AI">>

\* the iterations lo <= i < hi of the fibonacci loop on st = [a, b, result]
RECURSIVE fibLoop(_, _, _)
fibLoop(st, lo, hi) ==
  IF lo >= hi THEN st
  ELSE IF lo + 1 = hi
    THEN [a |-> st.b, b |-> DoubleAdd(st.a, st.b),
          result |-> Append(st.result, st.a)]
  ELSE LET mid  == (lo + hi) \div 2
           left == fibLoop(st, lo, mid)
       IN  IF Len(left.result) = mid THEN fibLoop(left, mid, hi) ELSE left

fibonacciSeries(n) ==
  IF n = 0 THEN <<>>
  ELSE fibLoop([a |-> DoubleOfInt(0), b |-> DoubleOfInt(1), result |-> <<>>],
               0, n).result

fibonacciBranch(email, n) ==
  IF ~isSafeInteger(n)
    THEN Respond(ErrorResponse(400, "Fibonacci input must be a valid integer", NoArg))
  ELSE IF n.n < 0
    THEN Respond(ErrorResponse(400, "Fibonacci input must be non-negative", NoArg))
  ELSE IF n.n > MAX_FIBONACCI_INPUT
    THEN Respond(ErrorResponse(400, "Fibonacci input exceeds maximum of",
                               <<MAX_FIBONACCI_INPUT>>))
  ELSE Respond(SuccessResponse(email, Result(fibonacciSeries(n.n))))

primeFilter(arr) == SelectSeq(arr, isPrime)

primeBranch(email, arr) ==
  LET validation == validateIntegerArray(arr, 0)
  IN  IF ~validation.valid
      THEN Respond(ErrorResponse(400, validation.error.text, validation.error.arg))
      ELSE Respond(SuccessResponse(email,
                     Result(LET primes == primeFilter(arr.elems)
                            IN  [i \in 1..Len(primes) |-> primes[i].n])))

\* arr.reduce over lcm with the overflow check, over arr[lo..hi] from the
\* accumulator acc; thrown says the callback threw
RECURSIVE lcmReduce(_, _, _, _)
lcmReduce(acc, arr, lo, hi) ==
  IF lo > hi THEN [thrown |-> FALSE, val |-> acc]
  ELSE IF lo = hi
    THEN LET lcmValue == lcm(acc, arr[lo].n)
         IN  IF ~QuotientIsSafeInteger(lcmValue)
             THEN [thrown |-> TRUE, val |-> acc]
             ELSE [thrown |-> FALSE, val |-> lcmValue.val]
  ELSE LET mid  == (lo + hi) \div 2
           left == lcmReduce(acc, arr, lo, mid)
       IN  IF left.thrown THEN left ELSE lcmReduce(left.val, arr, mid + 1, hi)

lcmOfArray(arr) ==
  IF \E i \in 1..Len(arr) : arr[i].n = 0
  THEN [thrown |-> FALSE, val |-> DoubleOfInt(0)]
  ELSE lcmReduce(DoubleOfInt(arr[1].n), arr, 2, Len(arr))

lcmBranch(email, arr) ==
  LET validation == validateIntegerArray(arr, 1)
  IN  IF ~validation.valid
      THEN Respond(ErrorResponse(400, validation.error.text, validation.error.arg))
      ELSE IF lcmOfArray(arr.elems).thrown
      THEN Respond(ErrorResponse(400, "LCM calculation overflow - values too large",
                                 NoArg))
      ELSE Respond(SuccessResponse(email, Result(lcmOfArray(arr.elems).val)))

\* arr.reduce((a, b) => gcd(a, b)) over arr[lo..hi] from the accumulator acc
RECURSIVE hcfReduce(_, _, _, _)
hcfReduce(acc, arr, lo, hi) ==
  IF lo > hi THEN acc
  ELSE IF lo = hi THEN gcd(acc, arr[lo].n)
  ELSE LET mid  == (lo + hi) \div 2
           left == hcfReduce(acc, arr, lo, mid)
       IN  IF left \in Int THEN hcfReduce(left, arr, mid + 1, hi) ELSE left

hcfOfArray(arr) == hcfReduce(arr[1].n, arr, 2, Len(arr))

hcfBranch(email, arr) ==
  LET validation == validateIntegerArray(arr, 1)
  IN  IF ~validation.valid
      THEN Respond(ErrorResponse(400, validation.error.text, validation.error.arg))
      ELSE Respond(SuccessResponse(email, Result(hcfOfArray(arr.elems))))

\* the AI branch up to the outbound call
aiBranch(apiKey, question) ==
  IF typeof(question) # "string"
    THEN Respond(ErrorResponse(400, "AI input must be a string", NoArg))
  ELSE IF Len(trim(question.chars)) = 0
    THEN Respond(ErrorResponse(400, "AI question cannot be empty", NoArg))
  ELSE IF Len(question.chars) > MAX_AI_QUESTION_LENGTH
    THEN Respond(ErrorResponse(400, "AI question exceeds maximum length of",
                               <<MAX_AI_QUESTION_LENGTH>>))
  ELSE IF Falsy(apiKey)
    THEN Respond(ErrorResponse(500, "AI service not configured", NoArg))
  ELSE Await

\* the AI branch after axios.post resolved; aiResponse is
\* response.data?.candidates?.[0]?.content?.parts?.[0]?.text
aiResolved(email, aiResponse) ==
  IF Falsy(aiResponse)
    THEN ErrorResponse(500, "AI service returned invalid response", NoArg)
  ELSE IF aiResponse.t # "string"
    \* aiResponse.trim is not a function: the TypeError lands in the catch
    \* of the outbound call, with neither response nor code
    THEN ErrorResponse(503, "AI service unavailable", NoArg)
  ELSE SuccessResponse(email, Result(extractWord(aiResponse.chars)))

\* faulty variant: the catch tests the wrong error code for the timeout
aiRejected_wrongCode(error) ==
  IF error.response THEN ErrorResponse(502, "AI service error", NoArg)
  ELSE IF error.code = "ETIMEDOUT"
    THEN ErrorResponse(504, "AI service timeout", NoArg)
  ELSE ErrorResponse(503, "AI service unavailable", NoArg)

\* the catch of the outbound call
aiRejected(error) ==
  IF error.response THEN ErrorResponse(502, "AI service error", NoArg)
  ELSE IF error.code = "ECONNABORTED"
    THEN ErrorResponse(504, "AI service timeout", NoArg)
  ELSE ErrorResponse(503, "AI service unavailable", NoArg)

Includes(seq, x) == \E i \in 1..Len(seq) : seq[i] = x

\* body and key validation, then the branch of the key
validateRequest(body) ==
  IF Falsy(body) \/ typeof(body) # "object"
    THEN [ok |-> FALSE, error |-> Err("Invalid request body", NoArg)]
  ELSE IF Len(Object_keys(body)) = 0
    THEN [ok |-> FALSE, error |-> Err("Request body cannot be empty", NoArg)]
  ELSE IF Len(Object_keys(body)) > 1
    THEN [ok |-> FALSE, error |-> Err("Request must contain exactly one key", NoArg)]
  ELSE IF ~Includes(allowedKeys, Object_keys(body)[1])
    THEN [ok |-> FALSE,
          error |-> Err("Invalid key. Allowed keys: fibonacci, prime, lcm, hcf, AI",
                        NoArg)]
  ELSE [ok |-> TRUE, error |-> Err("", NoArg)]

dispatch(email, apiKey, key, payload) ==
  CASE key = "fibonacci" -> fibonacciBranch(email, payload)
    [] key = "prime" -> primeBranch(email, payload)
    [] key = "lcm" -> lcmBranch(email, payload)
    [] key = "hcf" -> hcfBranch(email, payload)
    [] key = "AI" -> aiBranch(apiKey, payload)

\* app.post("/bfhl") from its entry to its first response or await
bfhl(email, apiKey, body) ==
  IF Falsy(email)
    THEN Respond(ErrorResponse(500, "Server configuration error", NoArg))
  ELSE IF ~validateRequest(body).ok
    THEN Respond(ErrorResponse(400, validateRequest(body).error.text, NoArg))
  ELSE dispatch(email, apiKey, Object_keys(body)[1],
                Get(body, Object_keys(body)[1]))

health(email) ==
  IF Falsy(email) THEN ErrorResponse(500, "Server configuration error", NoArg)
  ELSE HealthResponse(email)

notFound == ErrorResponse(404, "Route not found", NoArg)

\* the global error handler; error is what a middleware passed to next()
globalErrorHandler(error) ==
  IF error.syntax /\ error.status = 400 /\ error.body
  THEN ErrorResponse(400, "Invalid JSON", NoArg)
  ELSE ErrorResponse(500, "Internal server error", NoArg)

(***************************************************************************)
(* Inputs: the requests the model sends                                    *)
(***************************************************************************)
MaxFib == 81
MaxElem == 2
MaxArrayLen == 3
MaxReplyLen == 3

IntArray(seq) == JsArr([i \in 1..Len(seq) |-> JsInt(seq[i])])

RECURSIVE SeqsUpTo(_, _)
SeqsUpTo(S, n) ==
  IF n = 0 THEN {<<>>}
  ELSE LET shorter == SeqsUpTo(S, n - 1)
       IN  shorter \cup {Append(q, x) : q \in {r \in shorter : Len(r) = n - 1},
                                        x \in S}

FibonacciPayloads ==
  {JsInt(n) : n \in (-2..MaxFib) \cup {MAX_FIBONACCI_INPUT - 1,
                                       MAX_FIBONACCI_INPUT,
                                       MAX_FIBONACCI_INPUT + 1}}
  \cup {JsUnsafe, JsFraction, JsInfinity, JsNull, JsStr(<<"7">>),
        IntArray(<<7>>)}

SmallArrays == {IntArray(q) : q \in SeqsUpTo(-MaxElem..MaxElem, MaxArrayLen)}

\* arrays at the limits of the validator and of exact double arithmetic
BoundaryArrays ==
  {IntArray(<<2, 4, 7, 9, 11>>), IntArray(<<12, 18, 24>>),
   IntArray(<<24, 36, 60>>), IntArray(<<-12, 18>>), IntArray(<<-24, 36>>),
   IntArray(<<-24>>), IntArray(<<0, 5>>), IntArray(<<5, 7, 3>>),
   IntArray(<<25, 49, 121, 997, 994009, 999983>>),
   IntArray(<<999983, 999999, 1000000, -999983>>),
   IntArray(<<1000000>>), IntArray(<<-1000000>>),
   IntArray(<<1000001>>), IntArray(<<-1000001>>), IntArray(<<1, 2, 1000001>>),
   IntArray(<<999999, 999998>>), IntArray(<<999999, 999998, 999997>>),
   IntArray(<<999999, 0, 999998, 999997>>),
   IntArray(<<947324, 922162, 771722>>), IntArray(<<922162, 771722, 947324>>),
   IntArray(<<771722, 922162, 947324>>), IntArray(<<928245, 913167, 408930>>),
   IntArray(<<928245, 408930, 913167>>), IntArray(<<915222, 929654, 590623>>),
   IntArray([i \in 1..MAX_ARRAY_LENGTH |-> 6]),
   IntArray([i \in 1..(MAX_ARRAY_LENGTH + 1) |-> 6]),
   JsArr(<<JsInt(2), JsFraction, JsInt(5)>>),
   JsArr(<<JsInt(1000001), JsFraction>>),
   JsArr(<<JsFraction, JsInt(1000001)>>),
   JsArr(<<JsInt(2), JsInt(3), JsUnsafe>>),
   JsArr(<<JsStr(<<"2">>)>>), JsArr(<<JsNull>>),
   JsArr(<<JsInt(1), IntArray(<<2>>)>>),
   JsArr([i \in 1..(MAX_ARRAY_LENGTH + 1) |-> JsFraction])}

NonArrayPayloads ==
  {JsStr(<<"1", "2", "3">>), JsInt(5), JsNull, JsObj(<<Prop("0", JsInt(2))>>)}

ArrayPayloads == SmallArrays \cup BoundaryArrays \cup NonArrayPayloads

QuestionPayloads ==
  {JsStr(<<>>), JsStr(<<" ">>), JsStr(<<" ", "\t", "\n">>), JsStr(<<"a">>),
   JsStr(<<" ", "a", " ">>), JsStr(<<"a", " ", "b", "?">>),
   JsStr([i \in 1..MAX_AI_QUESTION_LENGTH |-> "a"]),
   JsStr([i \in 1..(MAX_AI_QUESTION_LENGTH + 1) |-> "a"]),
   JsStr([i \in 1..(MAX_AI_QUESTION_LENGTH + 1) |-> " "]),
   JsStr([i \in 1..(MAX_AI_QUESTION_LENGTH + 1) |->
            IF i = 1 THEN "a" ELSE " "]),
   JsInt(123), JsNull, IntArray(<<1>>)}

SingleKeyBodies ==
  {JsObj(<<Prop("fibonacci", x)>>) : x \in FibonacciPayloads}
  \cup {JsObj(<<Prop(k, x)>>) : k \in {"prime", "lcm", "hcf"}, x \in ArrayPayloads}
  \cup {JsObj(<<Prop("AI", x)>>) : x \in QuestionPayloads}

OtherBodies ==
  {JsUndefined, JsNull, JsStr(<<"a">>), JsInt(7), JsInt(0),
   JsArr(<<>>), IntArray(<<1>>), IntArray(<<1, 2>>),
   JsObj(<<>>),
   JsObj(<<Prop("fibonacci", JsInt(1)), Prop("prime", IntArray(<<2>>))>>),
   JsObj(<<Prop("fibonacci", JsInt(-1)), Prop("foo", JsInt(1))>>),
   JsObj(<<Prop("foo", JsInt(1)), Prop("hcf", IntArray(<<4, 6>>))>>),
   JsObj(<<Prop("foo", JsInt(1))>>), JsObj(<<Prop("Fibonacci", JsInt(7))>>),
   JsObj(<<Prop("ai", JsStr(<<"a">>))>>), JsObj(<<Prop("LCM", IntArray(<<1>>))>>),
   JsObj(<<Prop("0", JsInt(1))>>), JsObj(<<Prop("data", JsInt(1))>>)}

Bodies == SingleKeyBodies \cup OtherBodies

Emails == {JsUndefined, JsStr(<<>>), JsStr(<<"e", "@", "x">>)}
ApiKeys == {JsUndefined, JsStr(<<"k">>)}

\* response.data?.candidates?.[0]?.content?.parts?.[0]?.text of a reply
ReplyTexts ==
  {JsStr(q) : q \in SeqsUpTo({"a", " ", "."}, MaxReplyLen)}
  \cup {JsStr(<<"M", "u", ".", "m", "!", " ", "x">>), JsStr(<<" ", "\n", "o", "k", ".">>),
        JsUndefined, JsNull, JsInt(0), JsInt(42), IntArray(<<1>>)}

\* what axios.post rejects with: an HTTP error response, the timeout, or a
\* network failure
AxiosErrors ==
  {[response |-> TRUE, code |-> "ERR_BAD_REQUEST"],
   [response |-> TRUE, code |-> "ERR_BAD_RESPONSE"],
   [response |-> FALSE, code |-> "ECONNABORTED"],
   [response |-> FALSE, code |-> "ECONNREFUSED"],
   [response |-> FALSE, code |-> "ENOTFOUND"],
   [response |-> FALSE, code |-> "ERR_NETWORK"]}

\* what the middleware chain passes to the global error handler
MiddlewareErrors ==
  {[syntax |-> TRUE, status |-> 400, body |-> TRUE],
   [syntax |-> FALSE, status |-> 413, body |-> FALSE],
   [syntax |-> FALSE, status |-> 400, body |-> FALSE],
   [syntax |-> FALSE, status |-> 500, body |-> FALSE]}

(***************************************************************************)
(* The service handling one request: requests share no state, so a        *)
(* behaviour is the handling of a single request from its arrival (idle)   *)
(* to its response.                                                        *)
(***************************************************************************)
VARIABLES EMAIL, GEMINI_API_KEY, pc, req, res, call, outboundCalls, responses

vars == <<EMAIL, GEMINI_API_KEY, pc, req, res, call, outboundCalls, responses>>

NoCall == [state |-> "none", text |-> JsUndefined, response |-> FALSE, code |-> ""]
NoRequest == [route |-> "none", body |-> JsUndefined]

Init ==
  /\ EMAIL \in Emails
  /\ GEMINI_API_KEY \in ApiKeys
  /\ pc = "idle"
  /\ req = NoRequest
  /\ res = NoResponse
  /\ call = NoCall
  /\ outboundCalls = 0
  /\ responses = 0

\* a handler that writes its response without suspending
Handle(route, body, r) ==
  /\ pc = "idle"
  /\ req' = [route |-> route, body |-> body]
  /\ res' = r
  /\ pc' = "responded"
  /\ call' = NoCall
  /\ outboundCalls' = 0
  /\ responses' = 1
  /\ UNCHANGED <<EMAIL, GEMINI_API_KEY>>

GetHealth == Handle("GET /health", JsUndefined, health(EMAIL))

PostBfhl ==
  /\ pc = "idle"
  /\ \E body \in Bodies :
    LET out == bfhl(EMAIL, GEMINI_API_KEY, body)
    IN  IF out.await
        THEN /\ pc' = "awaiting"
             /\ req' = [route |-> "POST /bfhl", body |-> body]
             /\ res' = NoResponse
             /\ call' = [NoCall EXCEPT !.state = "pending"]
             /\ outboundCalls' = 1
             /\ responses' = 0
             /\ UNCHANGED <<EMAIL, GEMINI_API_KEY>>
        ELSE Handle("POST /bfhl", body, out.res)

AxiosResolved ==
  /\ pc = "awaiting"
  /\ \E text \in ReplyTexts :
       /\ call' = [NoCall EXCEPT !.state = "resolved", !.text = text]
       /\ res' = aiResolved(EMAIL, text)
  /\ pc' = "responded"
  /\ responses' = responses + 1
  /\ UNCHANGED <<EMAIL, GEMINI_API_KEY, req, outboundCalls>>

AxiosRejected ==
  /\ pc = "awaiting"
  /\ \E error \in AxiosErrors :
       /\ call' = [NoCall EXCEPT !.state = "rejected",
                                 !.response = error.response, !.code = error.code]
       /\ res' = aiRejected(error)
  /\ pc' = "responded"
  /\ responses' = responses + 1
  /\ UNCHANGED <<EMAIL, GEMINI_API_KEY, req, outboundCalls>>

NotFound == Handle("other", JsUndefined, notFound)

GlobalErrorHandler ==
  \E error \in MiddlewareErrors :
    Handle("error", JsUndefined, globalErrorHandler(error))

Next ==
  \/ GetHealth
  \/ PostBfhl
  \/ AxiosResolved
  \/ AxiosRejected
  \/ NotFound
  \/ GlobalErrorHandler

Spec == Init /\ [][Next]_vars

(***************************************************************************)
(* What the claims speak of                                                *)
(***************************************************************************)
Responded == pc = "responded"

\* a POST /bfhl request whose handler got past the identity check, so that
\* its body reached the request validator
Validated == req.route = "POST /bfhl" /\ pc # "idle" /\ ~Falsy(EMAIL)

Operations == {"fibonacci", "prime", "lcm", "hcf", "AI"}

\* the body is a key-value structure with exactly one key, an allowed one
OneAllowedKey(b) ==
  b.t = "object" /\ Len(b.props) = 1 /\ b.props[1].k \in Operations

Operation == req.body.props[1].k
Payload == req.body.props[1].val

\* the elements of an array payload that its validator must reject
Offending(p) ==
  {i \in 1..Len(p.elems) :
     p.elems[i].t # "int" \/ Abs(p.elems[i].n) > MAX_ARRAY_VALUE}

\* the payload satisfies the constraints its operation states
PayloadValid(op, p) ==
  CASE op = "fibonacci" -> p.t = "int" /\ 0 <= p.n /\ p.n <= MAX_FIBONACCI_INPUT
    [] op \in {"prime", "lcm", "hcf"} ->
         /\ p.t = "array"
         /\ Len(p.elems) <= MAX_ARRAY_LENGTH
         /\ op # "prime" => Len(p.elems) >= 1
         /\ Offending(p) = {}
    [] op = "AI" ->
         /\ p.t = "string"
         /\ \E i \in 1..Len(p.chars) : p.chars[i] \notin Whitespace
         /\ Len(p.chars) <= MAX_AI_QUESTION_LENGTH

RequestValid(b) == OneAllowedKey(b) /\ PayloadValid(b.props[1].k, b.props[1].val)

\* a validated request of operation op whose payload passed its validator
Passed(op) ==
  Validated /\ OneAllowedKey(req.body) /\ Operation = op /\ PayloadValid(op, Payload)

Ints(elems) == [i \in 1..Len(elems) |-> elems[i].n]

(***************************************************************************)
(* C1: every response has the uniform envelope: a success carries          *)
(* official_email and no error (and data, for POST /bfhl); a failure       *)
(* carries error and neither data nor official_email; a POST /bfhl         *)
(* response carries exactly one of data and error.                         *)
(***************************************************************************)
C1_UniformEnvelope ==
  Responded =>
    /\ "is_success" \in res.has
    /\ res.is_success =>
         /\ "official_email" \in res.has
         /\ "error" \notin res.has
         /\ req.route = "POST /bfhl" => "data" \in res.has
    /\ ~res.is_success =>
         /\ "error" \in res.has
         /\ "data" \notin res.has
         /\ "official_email" \notin res.has
    /\ req.route = "POST /bfhl" => ("data" \in res.has) # ("error" \in res.has)

C1_Witness ==
  /\ Responded
  /\ req.route = "POST /bfhl"
  /\ res.is_success
  /\ res.has = {"is_success", "official_email", "data"}

(***************************************************************************)
(* C2: the request validator answers InvalidBody for a body that is        *)
(* missing or no plain key-value structure (a JSON array included), then   *)
(* EmptyBody for zero keys, then MultipleKeys for more than one, then      *)
(* UnknownOperation for a key outside the five; a body with exactly one    *)
(* allowed key is routed to the operation of that key.                     *)
(***************************************************************************)
C2_ValidatorClassification ==
  Validated =>
    LET b == req.body
    IN  IF b.t # "object"
          THEN Responded /\ res.status = 400
               /\ res.error.text = "Invalid request body"
        ELSE IF Len(b.props) = 0
          THEN Responded /\ res.status = 400
               /\ res.error.text = "Request body cannot be empty"
        ELSE IF Len(b.props) > 1
          THEN Responded /\ res.status = 400
               /\ res.error.text = "Request must contain exactly one key"
        ELSE IF b.props[1].k \notin Operations
          THEN Responded /\ res.status = 400
               /\ res.error.text =
                    "Invalid key. Allowed keys: fibonacci, prime, lcm, hcf, AI"
        ELSE LET out == dispatch(EMAIL, GEMINI_API_KEY, Operation, Payload)
             IN  IF out.await THEN call.state # "none"
                 ELSE Responded /\ res.status = out.res.status
                      /\ res.error = out.res.error

(***************************************************************************)
(* C3: a POST /bfhl request that fails validation (body shape, key set or  *)
(* the payload constraints of its operation) is answered 400 with an error *)
(* and no data, an array error naming the first offending index; a 200     *)
(* response is given only to a payload that passed its validator.          *)
(***************************************************************************)
C3_ValidationFailure400 ==
  Validated =>
    /\ ~RequestValid(req.body) =>
         /\ Responded
         /\ res.status = 400
         /\ ~res.is_success
         /\ "error" \in res.has /\ res.error.text # ""
         /\ "data" \notin res.has
    /\ ( /\ OneAllowedKey(req.body)
         /\ Operation \in {"prime", "lcm", "hcf"}
         /\ Payload.t = "array"
         /\ Len(Payload.elems) <= MAX_ARRAY_LENGTH
         /\ Offending(Payload) # {} ) =>
         res.error.arg = <<SetMin(Offending(Payload)) - 1>>
    /\ (Responded /\ res.status = 200) => RequestValid(req.body)

C3_Witness ==
  /\ Validated
  /\ OneAllowedKey(req.body)
  /\ Operation = "lcm"
  /\ Payload.t = "array"
  /\ Len(Payload.elems) = 3
  /\ Offending(Payload) = {3}
  /\ res.status = 400
  /\ res.error.arg = <<2>>

(***************************************************************************)
(* C4: for 0 <= n <= 1000 the fibonacci operation succeeds with a sequence *)
(* of length n that starts 0, 1 and in which every later element is the    *)
(* sum of the two before it.                                               *)
(***************************************************************************)
\* z = x + y as integers
ExactSum(x, y, z) ==
  LET e0 == Min(Min(x.e, y.e), z.e)
  IN  BigAdd(ShiftL(x.m, x.e - e0), ShiftL(y.m, y.e - e0)) = ShiftL(z.m, z.e - e0)

C4_FibonacciRecurrence ==
  Passed("fibonacci") =>
    /\ Responded /\ res.status = 200 /\ "data" \in res.has
    /\ LET seq == res.data.val
            n   == Payload.n
       IN  /\ Len(seq) = n
           /\ n >= 1 => seq[1] = DoubleOfInt(0)
           /\ n >= 2 => seq[2] = DoubleOfInt(1)
           /\ \A i \in 3..n : ExactSum(seq[i - 1], seq[i - 2], seq[i])

(***************************************************************************)
(* C5: the prime operation returns exactly the subsequence of the prime    *)
(* elements of its array, in order and with their multiplicity, and        *)
(* isPrime agrees with the definition of a prime number.                   *)
(***************************************************************************)
PrimeRange == 10000

\* n is a prime number: greater than 1 and divisible by no d with 1 < d < n
IsPrimeNumber(n) == n > 1 /\ \A d \in 2..(n - 1) : n % d # 0

isPrimeAgreesOnRange ==
  \A n \in (-PrimeRange)..PrimeRange : isPrime(JsInt(n)) = IsPrimeNumber(n)

C5_PrimeFilter ==
  /\ isPrimeAgreesOnRange
  /\ Passed("prime") =>
       /\ Responded /\ res.status = 200 /\ "data" \in res.has
       /\ res.data.val = SelectSeq(Ints(Payload.elems), IsPrimeNumber)
       /\ \A i \in 1..Len(Payload.elems) :
            isPrime(Payload.elems[i]) = IsPrimeNumber(Payload.elems[i].n)

C5_Witness ==
  /\ Passed("prime")
  /\ Responded
  /\ Len(res.data.val) >= 2
  /\ Len(res.data.val) < Len(Payload.elems)
  /\ \E i \in 1..Len(Payload.elems) : Payload.elems[i].n > PrimeRange

(***************************************************************************)
(* C6: for a validated single-element array [x] the lcm operation returns  *)
(* |x|.                                                                    *)
(***************************************************************************)
C6_LcmSingleElement ==
  (Passed("lcm") /\ Len(Payload.elems) = 1) =>
    /\ Responded /\ res.status = 200 /\ "data" \in res.has
    /\ res.data.val =
         [neg |-> FALSE, m |-> BigFromInt(Abs(Payload.elems[1].n)), e |-> 0]

(***************************************************************************)
(* C7: the hcf operation returns the non-negative greatest common divisor  *)
(* of the magnitudes of its elements (0 when all are 0), and its result is *)
(* unchanged when the sign of any one element is flipped.                  *)
(***************************************************************************)
\* the greatest d dividing every element, 0 when every element is 0
GreatestCommonDivisor(xs) ==
  LET mags == {Abs(xs[i]) : i \in 1..Len(xs)} \ {0}
  IN  IF mags = {} THEN 0
      ELSE SetMax({d \in 1..SetMin(mags) : \A x \in mags : x % d = 0})

FlipSign(elems, i) == [elems EXCEPT ![i] = JsInt(-elems[i].n)]

C7_HcfMagnitude ==
  Passed("hcf") =>
    /\ Responded /\ res.status = 200 /\ "data" \in res.has
    /\ res.data.val = GreatestCommonDivisor(Ints(Payload.elems))
    /\ \A i \in 1..Len(Payload.elems) :
         hcfOfArray(FlipSign(Payload.elems, i)) = res.data.val

(***************************************************************************)
(* C8: an AI request that passed validation makes, with the credential     *)
(* configured, exactly one outbound call and writes exactly one response:  *)
(* 502 when the service answered with an error response, 504 when the call *)
(* was aborted by the timeout, 503 when it failed in any other way (none   *)
(* of the three with data), 200 with the extracted word when it replied    *)
(* with a usable answer; with the credential unconfigured it answers 500   *)
(* and makes no outbound call.                                             *)
(***************************************************************************)
\* how the outbound call ended (axios reports its timeout as ECONNABORTED)
UpstreamRejected == call.state = "rejected" /\ call.response
UpstreamTimeout ==
  call.state = "rejected" /\ ~call.response /\ call.code = "ECONNABORTED"
UpstreamUnreachable ==
  call.state = "rejected" /\ ~call.response /\ call.code # "ECONNABORTED"
UsableAnswer ==
  call.state = "resolved" /\ call.text.t = "string" /\ call.text.chars # <<>>

C8_AiOutcome ==
  Passed("AI") =>
    IF Falsy(GEMINI_API_KEY)
    THEN Responded /\ res.status = 500 /\ outboundCalls = 0 /\ responses = 1
    ELSE /\ outboundCalls = 1
         /\ pc = "awaiting" => (responses = 0 /\ call.state = "pending")
         /\ Responded =>
              /\ responses = 1
              /\ UpstreamRejected => res.status = 502
              /\ UpstreamTimeout => res.status = 504
              /\ UpstreamUnreachable => res.status = 503
              /\ call.state = "rejected" =>
                   (~res.is_success /\ "data" \notin res.has)
              /\ UsableAnswer =>
                   /\ res.status = 200
                   /\ "data" \in res.has
                   /\ res.data.val = extractWord(call.text.chars)

C8_Witness ==
  /\ Passed("AI")
  /\ Responded
  /\ outboundCalls = 1
  /\ UpstreamTimeout
  /\ res.status = 504

(***************************************************************************)
(* C9: the lcm operation gives 0 when an element is 0; otherwise it fails  *)
(* with the Overflow error (400) exactly when an intermediate result of    *)
(* the left-to-right reduction exceeds 2^53 - 1, and else returns the      *)
(* exact least common multiple.  (Magnitudes are compared: the sign of a   *)
(* single-element result is the matter of C6.)                             *)
(***************************************************************************)
\* the exact left-to-right reduction lcm(a, b) = |a * b| / gcd(a, b) of
\* xs[lo..hi] from acc; over says an intermediate result exceeded 2^53 - 1
RECURSIVE ExactLcm(_, _, _, _)
ExactLcm(acc, xs, lo, hi) ==
  IF lo > hi THEN [over |-> FALSE, val |-> acc]
  ELSE IF lo = hi
    THEN LET b == Abs(xs[lo])
             g == gcd(b, BigDivMod(acc, b).r)
             v == BigDivMod(BigMulSmall(acc, b), g).q
         IN  [over |-> BitLen(v) > MantissaBits, val |-> v]
  ELSE LET mid  == (lo + hi) \div 2
           left == ExactLcm(acc, xs, lo, mid)
       IN  IF left.over THEN left ELSE ExactLcm(left.val, xs, mid + 1, hi)

C9_LcmOutcome ==
  Passed("lcm") =>
    LET xs == Ints(Payload.elems)
        ex == ExactLcm(BigFromInt(Abs(xs[1])), xs, 2, Len(xs))
    IN  /\ Responded
        /\ IF \E i \in 1..Len(xs) : xs[i] = 0
           THEN res.status = 200 /\ res.data.val = DoubleOfInt(0)
           ELSE IF ex.over
           THEN /\ res.status = 400
                /\ res.error.text = "LCM calculation overflow - values too large"
           ELSE /\ res.status = 200
                /\ res.data.val.m = ex.val
                /\ res.data.val.e = 0

(***************************************************************************)
(* C10: the lcm operation gives the same outcome, the same integer or      *)
(* Overflow, on every permutation of a validated array of two or more      *)
(* elements.                                                               *)
(***************************************************************************)
Reorderings(n) ==
  {f \in [1..n -> 1..n] : \A i, j \in 1..n : f[i] = f[j] => i = j}

C10_LcmPermutation ==
  (Passed("lcm") /\ Len(Payload.elems) >= 2 /\ Len(Payload.elems) <= MaxArrayLen) =>
    /\ Responded
    /\ \A f \in Reorderings(Len(Payload.elems)) :
         LET out == lcmOfArray([i \in 1..Len(Payload.elems) |-> Payload.elems[f[i]]])
         IN  IF res.status = 200
             THEN ~out.thrown /\ out.val = res.data.val
             ELSE out.thrown

(***************************************************************************)
(* C11: on a successful outbound reply the AI operation returns the first  *)
(* whitespace-delimited token of the reply.  As first stated, only the     *)
(* punctuation that ends the token is stripped and an empty reply also     *)
(* succeeds with "Unknown" (C11_TrailingPunctuation).  As amended, every   *)
(* punctuation character of the token is removed wherever it stands, a     *)
(* token of which nothing is left gives "Unknown" with status 200, and an  *)
(* empty reply is answered 500 (C11_ExtractedWord).                        *)
(***************************************************************************)
\* the outbound call of a validated AI request resolved with a text reply
TextReply ==
  Passed("AI") /\ Responded /\ call.state = "resolved" /\ call.text.t = "string"

\* the first maximal run of characters of s that are not whitespace
FirstWord(s) ==
  LET solid == {i \in 1..Len(s) : s[i] \notin Whitespace}
  IN  IF solid = {} THEN <<>>
      ELSE LET from == SetMin(solid)
               gaps == {i \in from..Len(s) : s[i] \in Whitespace}
           IN  SubSeq(s, from, IF gaps = {} THEN Len(s) ELSE SetMin(gaps) - 1)

OrUnknown(word) == IF word = <<>> THEN Unknown ELSE word

C11_ExtractedWord ==
  TextReply =>
    IF call.text.chars = <<>>
    THEN /\ res.status = 500
         /\ res.error.text = "AI service returned invalid response"
         /\ "data" \notin res.has
    ELSE /\ res.status = 200
         /\ "data" \in res.has
         /\ res.data.val =
              OrUnknown(SelectSeq(FirstWord(call.text.chars), IsNotPunctuation))

C11_Witness ==
  /\ TextReply
  /\ call.text.chars = <<"M", "u", ".", "m", "!", " ", "x">>
  /\ res.status = 200
  /\ res.data.val = <<"M", "u", "m">>

C11_TrailingPunctuation ==
  TextReply =>
    /\ res.status = 200
    /\ "data" \in res.has
    /\ res.data.val =
         OrUnknown(stripPunctuation_trailing(FirstWord(call.text.chars)))

====
